---- MODULE Spec2Model ----
(***************************************************************************)
(* A model of the mono_cipher package: the monoalphabetic substitution     *)
(* cipher (cipher.py), the cryptanalysis heuristics (analysis.py) and the  *)
(* command line (cli.py, workflows.py).                                    *)
(*                                                                         *)
(* A Python str is modelled as a sequence of Unicode code points, so that  *)
(* str.isalpha, str.isupper, str.upper, str.lower and ord are modelled by  *)
(* what they do on each character.  A call's outcome is a record           *)
(* [exc, val]: exc is "none" and val the returned value, or exc names the  *)
(* exception that left the function.                                       *)
(***************************************************************************)
EXTENDS Integers, Sequences, FiniteSets, TLC

VARIABLES
    text,       \* the text supplied by the caller (a str)
    key,        \* the substitution key supplied by the caller (a str)
    cur,        \* the text at hand: `text`, then the last cipher output
    hist,       \* the names of the functions called so far, in order
    ret,        \* outcome of the last call: [exc |-> ..., val |-> ...]
    args,       \* the other arguments of the last call (a record)
    buckets,    \* the cosets the last call built (its local `buckets`)
    pc          \* where the program stands: "lib" in a caller of the
                \* library, else the prompt the command line waits at

vars == <<text, key, cur, hist, ret, args, buckets, pc>>

(***************************************************************************)
(* Bounds of the model.                                                    *)
(***************************************************************************)
MaxTextLen == 3     \* longest text handed to the cipher
MaxCalls == 2       \* cipher calls made one after the other

(***************************************************************************)
(* Characters.  The letters that occur are A-Z, a-z and, standing for the  *)
(* alphabetic characters outside ASCII, the pair E-acute / e-acute.        *)
(***************************************************************************)
OrdA == 65
Space == 32
Digit7 == 55
UpperEAcute == 201
LowerEAcute == 233

AsciiUpper == 65..90
AsciiLower == 97..122

\* str.isupper / str.islower / str.isalpha on one character
IsUpper(ch) == ch \in AsciiUpper \/ ch = UpperEAcute
IsLower(ch) == ch \in AsciiLower \/ ch = LowerEAcute
IsAlpha(ch) == IsUpper(ch) \/ IsLower(ch)

\* str.upper / str.lower on one character
Upper(ch) == IF IsLower(ch) THEN ch - 32 ELSE ch
Lower(ch) == IF IsUpper(ch) THEN ch + 32 ELSE ch

Range(s) == {s[i] : i \in 1..Len(s)}
\* str.upper / str.lower on a string
UpperStr(s) == [i \in 1..Len(s) |-> Upper(s[i])]
LowerStr(s) == [i \in 1..Len(s) |-> Lower(s[i])]

NoArgs == <<>>

Return(v) == [exc |-> "none", val |-> v]
Raise(e) == [exc |-> e, val |-> <<>>]

(***************************************************************************)
(* cipher.py                                                               *)
(***************************************************************************)
\* string.ascii_uppercase
ALPHABET == [i \in 1..26 |-> OrdA + i - 1]

\* _normalize_key: the key's alphabetic characters, upper-cased; ValueError
\* unless there are exactly 26 of them, all distinct
normalize_key(k) ==
    LET letters == SelectSeq(k, IsAlpha)
        uppered == UpperStr(letters)
    IN IF Len(letters) # 26 THEN Raise("ValueError")
       ELSE IF Cardinality(Range(uppered)) # 26 THEN Raise("ValueError")
       ELSE Return(uppered)

\* _build_maps(key)["forward"]: plain letter -> substitute (a dict)
forward_map(normalized) ==
    [plain \in Range(ALPHABET) |-> normalized[plain - OrdA + 1]]

\* _build_maps(key)["inverse"]: substitute -> plain letter; in a dict
\* comprehension the last plain letter written under a substitute stays
inverse_map(normalized) ==
    LET forward == forward_map(normalized)
    IN [subst \in Range(normalized) |->
          CHOOSE plain \in DOMAIN forward :
             /\ forward[plain] = subst
             /\ \A q \in DOMAIN forward : forward[q] = subst => q <= plain]

\* the loop of encrypt and decrypt over the characters: maps[upper] raises
\* KeyError at the first alphabetic character whose upper case is no key
\* of the dict
substitute(s, maps) ==
    IF \E i \in 1..Len(s) : IsAlpha(s[i]) /\ Upper(s[i]) \notin DOMAIN maps
    THEN Raise("KeyError")
    ELSE Return([i \in 1..Len(s) |->
                   IF IsAlpha(s[i])
                   THEN IF IsUpper(s[i]) THEN maps[Upper(s[i])]
                        ELSE Lower(maps[Upper(s[i])])
                   ELSE s[i]])

encrypt(plaintext, k) ==
    LET n == normalize_key(k)
    IN IF n.exc # "none" THEN n ELSE substitute(plaintext, forward_map(n.val))

decrypt(ciphertext, k) ==
    LET n == normalize_key(k)
    IN IF n.exc # "none" THEN n ELSE substitute(ciphertext, inverse_map(n.val))

validate_key(k) ==
    LET n == normalize_key(k)
    IN IF n.exc # "none" THEN n ELSE Return(TRUE)

(***************************************************************************)
(* The inputs of the cipher.                                               *)
(***************************************************************************)
CipherChars == {65, 90, 101, Space, LowerEAcute}    \* A Z e ' ' e-acute

SeqsUpTo(S, n) == UNION {[1..m -> S] : m \in 0..n}

CipherTexts == SeqsUpTo(CipherChars, MaxTextLen)

\* "QWERTYUIOPASDFGHJKLZXCVBNM", the key the prompt of _read_key suggests
KeyQwerty ==
    <<81, 87, 69, 82, 84, 89, 85, 73, 79, 80, 65, 83, 68,
      70, 71, 72, 74, 75, 76, 90, 88, 67, 86, 66, 78, 77>>

KeyMixedCase ==
    [i \in 1..26 |-> IF i % 2 = 0 THEN Lower(KeyQwerty[i]) ELSE KeyQwerty[i]]

Keys ==
    { KeyQwerty,                                        \* a permutation
      ALPHABET,                                         \* the identity
      LowerStr(KeyQwerty),                         \* lower case
      KeyMixedCase,                                     \* mixed case
      SubSeq(KeyQwerty, 1, 10) \o <<Space>>
          \o SubSeq(KeyQwerty, 11, 26) \o <<Digit7>>,   \* 26 letters and non-letters
      SubSeq(KeyQwerty, 1, 25),                         \* 25 letters
      SubSeq(KeyQwerty, 1, 25) \o <<Digit7>>,           \* 25 letters and a digit
      KeyQwerty \o <<OrdA>>,                            \* 27 letters
      SubSeq(KeyQwerty, 1, 25) \o <<Lower(KeyQwerty[1])>>, \* Q twice, as Q and q
      <<>>,                                             \* empty
      [KeyQwerty EXCEPT ![3] = UpperEAcute] }           \* E replaced by E-acute

(***************************************************************************)
(* The state machine: a caller that holds a text and a key and calls the   *)
(* cipher's functions, feeding each output to the next call.  An exception *)
(* ends the run.                                                           *)
(***************************************************************************)
Init ==
    /\ text \in CipherTexts
    /\ key \in Keys
    /\ cur = text
    /\ hist = <<>>
    /\ ret = Return(<<>>)
    /\ args = NoArgs
    /\ buckets = <<>>
    /\ pc = "lib"

CanCall == ret.exc = "none" /\ Len(hist) < MaxCalls

ValidateKey ==
    /\ CanCall
    /\ ret' = validate_key(key)
    /\ hist' = Append(hist, "validate_key")
    /\ UNCHANGED <<text, key, cur, args, buckets, pc>>

Encrypt ==
    /\ CanCall
    /\ ret' = encrypt(cur, key)
    /\ cur' = IF ret'.exc = "none" THEN ret'.val ELSE cur
    /\ hist' = Append(hist, "encrypt")
    /\ UNCHANGED <<text, key, args, buckets, pc>>

Decrypt ==
    /\ CanCall
    /\ ret' = decrypt(cur, key)
    /\ cur' = IF ret'.exc = "none" THEN ret'.val ELSE cur
    /\ hist' = Append(hist, "decrypt")
    /\ UNCHANGED <<text, key, args, buckets, pc>>

Next == ValidateKey \/ Encrypt \/ Decrypt

Spec == Init /\ [][Next]_vars

(***************************************************************************)
(* analysis.py                                                             *)
(*                                                                         *)
(* A float is modelled exactly where the code only compares it: an index   *)
(* of coincidence is a fraction [num, den] in lowest terms, a chi-square   *)
(* score is a fixed-point number of ChiScale units per 1, and float("inf") *)
(* is a value above every score.                                           *)
(***************************************************************************)
RECURSIVE GCD(_, _)
GCD(a, b) == IF b = 0 THEN a ELSE GCD(b, a % b)

Rat(n, d) == LET g == GCD(n, d) IN [num |-> n \div g, den |-> d \div g]
Zero == [num |-> 0, den |-> 1]
RatAdd(x, y) == Rat(x.num * y.den + y.num * x.den, x.den * y.den)
RatDiv(x, m) == Rat(x.num, x.den * m)
RatLess(x, y) == x.num * y.den < y.num * x.den

RECURSIVE RatSum(_)
RatSum(s) == IF s = <<>> THEN Zero ELSE RatAdd(s[1], RatSum(Tail(s)))

\* sorted(s, key=..., reverse=True) and list.sort(key=..., reverse=True),
\* keys[i] being the key of s[i]: descending, elements with equal keys
\* staying in their order
sorted_reverse(s, keys) ==
    LET pos(i) ==
            Cardinality({j \in 1..Len(s) : RatLess(keys[i], keys[j])})
            + Cardinality({j \in 1..i : keys[j] = keys[i]})
    IN [p \in 1..Len(s) |-> s[CHOOSE i \in 1..Len(s) : pos(i) = p]]

\* the first elements of a list of pairs
Firsts(s) == [i \in 1..Len(s) |-> s[i][1]]

\* s[:n] for n >= 0
Prefix(s, n) == SubSeq(s, 1, IF n < Len(s) THEN n ELSE Len(s))

\* ENGLISH_FREQ, in units of 1/FreqScale
FreqScale == 100000
FreqTable ==
    << 8167, 1492, 2782, 4253, 12702, 2228, 2015, 6094, 6966, 153, 772, 4025,
       2406, 6749, 7507, 1929, 95, 5987, 6327, 9056, 2758, 978, 2360, 150,
       1974, 74 >>
ENGLISH_FREQ == [letter \in AsciiUpper |-> FreqTable[letter - OrdA + 1]]

\* _letters_only: the alphabetic characters of text.upper()
letters_only(t) == SelectSeq(UpperStr(t), IsAlpha)

\* text[i:i + size], i counted from 0
Slice(t, i, size) == SubSeq(t, i + 1, i + size)

\* kasiski_examination, lines 33-37: repeats, a dict from each substring to
\* the list of its starting positions, in order of insertion
RECURSIVE record_positions(_, _, _, _, _)
record_positions(t, size, max_len, i, repeats) ==
    IF size > max_len THEN repeats
    ELSE IF i > Len(t) - size
         THEN record_positions(t, size + 1, max_len, 0, repeats)
         ELSE LET seq == Slice(t, i, size)
                  found == {j \in 1..Len(repeats) : repeats[j].seq = seq}
                  at == IF found = {} THEN 0 ELSE CHOOSE j \in found : TRUE
              IN record_positions(t, size, max_len, i + 1,
                    IF at = 0
                    THEN Append(repeats, [seq |-> seq, positions |-> <<i>>])
                    ELSE [repeats EXCEPT ![at].positions = Append(@, i)])

\* lines 39-44: the distances between each occurrence and the next one
all_pairs_distances(positions) ==
    LET n == Len(positions)
        pairs == {<<i, j>> \in (1..n) \X (1..n) : i < j}
        RECURSIVE list(_)
        list(S) == IF S = {} THEN <<>>
                   ELSE LET p == CHOOSE q \in S : TRUE
                        IN <<positions[p[2]] - positions[p[1]]>> \o list(S \ {p})
    IN list(pairs)

consecutive_distances(positions) ==
    [i \in 1..(Len(positions) - 1) |-> positions[i + 1] - positions[i]]

RECURSIVE collect_distances(_)
collect_distances(repeats) ==
    IF repeats = <<>> THEN <<>>
    ELSE (IF Len(repeats[1].positions) < 2 THEN <<>>
          ELSE consecutive_distances(repeats[1].positions))
         \o collect_distances(Tail(repeats))

\* the elements of a set of integers, ascending
Ascending(S) ==
    [i \in 1..Cardinality(S) |->
        CHOOSE x \in S : Cardinality({y \in S : y < x}) = i - 1]

\* lines 46-50: factors, a Counter, in order of insertion.  One distance d
\* adds 1 under every f of range(2, max_key + 1) that divides it, a factor
\* not yet counted being inserted at the end, the smaller first
count_one_distance(d, max_key, factors) ==
    LET hit == {f \in 2..max_key : d % f = 0}
        counted == {factors[j][1] : j \in 1..Len(factors)}
        fresh == Ascending(hit \ counted)
    IN [j \in 1..Len(factors) |->
           IF factors[j][1] \in hit
           THEN <<factors[j][1], factors[j][2] + 1>> ELSE factors[j]]
       \o [j \in 1..Len(fresh) |-> <<fresh[j], 1>>]

RECURSIVE count_factors(_, _, _)
count_factors(distances, max_key, factors) ==
    IF distances = <<>> THEN factors
    ELSE count_factors(Tail(distances), max_key,
                       count_one_distance(distances[1], max_key, factors))

kasiski_examination(ciphertext, min_len, max_len, max_key) ==
    LET t == letters_only(ciphertext)
        repeats == record_positions(t, min_len, max_len, 0, <<>>)
        distances == collect_distances(repeats)
        factors == count_factors(distances, max_key, <<>>)
    IN sorted_reverse(factors, [i \in 1..Len(factors) |-> Rat(factors[i][2], 1)])

\* index_of_coincidence; Counter(seq).values() are the counts of the
\* letters that occur
ic_of_squares(seq) ==
    LET n == Len(seq)
        count(c) == Cardinality({i \in 1..n : seq[i] = c})
        RECURSIVE total(_)
        total(S) == IF S = {} THEN 0
                    ELSE LET c == CHOOSE x \in S : TRUE
                         IN count(c) * count(c) + total(S \ {c})
    IN IF n <= 1 THEN Zero ELSE Rat(total(Range(seq)), n * (n - 1))

index_of_coincidence(seq) ==
    LET n == Len(seq)
        count(c) == Cardinality({i \in 1..n : seq[i] = c})
        RECURSIVE total(_)
        total(S) == IF S = {} THEN 0
                    ELSE LET c == CHOOSE x \in S : TRUE
                         IN count(c) * (count(c) - 1) + total(S \ {c})
    IN IF n <= 1 THEN Zero ELSE Rat(total(Range(seq)), n * (n - 1))

\* the bucket of the character at index idx: idx % key_len
bucket_by_block(idx, key_len) == (idx \div key_len) % key_len

bucket_of(idx, key_len) == idx % key_len

\* buckets = [[] for _ in range(key_len)], then
\* for idx, ch in enumerate(text): buckets[idx % key_len].append(ch)
RECURSIVE fill_buckets(_, _, _, _)
fill_buckets(t, key_len, idx, b) ==
    IF idx >= Len(t) THEN b
    ELSE fill_buckets(t, key_len, idx + 1,
            [b EXCEPT ![bucket_of(idx, key_len) + 1] = Append(@, t[idx + 1])])

make_buckets(t, key_len) ==
    fill_buckets(t, key_len, 0, [p \in 1..key_len |-> <<>>])

\* average_ic_for_keylen
average_ic_for_keylen(ciphertext, key_len) ==
    IF key_len <= 0 THEN Zero
    ELSE LET b == make_buckets(letters_only(ciphertext), key_len)
             long == SelectSeq(b, LAMBDA bucket : Len(bucket) > 1)
             ics == [i \in 1..Len(long) |-> index_of_coincidence(long[i])]
         IN IF ics = <<>> THEN Zero ELSE RatDiv(RatSum(ics), Len(ics))

\* chi_square_score.  Each term (observed - expected)^2 / expected, with
\* expected = freq * n, is observed^2 / (freq * n) - 2 * observed + freq * n
ChiScale == 10000
Inf == 2147483647

chi_square_score(seq, shift) ==
    IF seq = <<>> THEN Inf
    ELSE LET n == Len(seq)
             shifted(ch) == ((ch - OrdA - shift) % 26) + OrdA
             shifted_counts ==
                 [letter \in {shifted(ch) : ch \in Range(seq)} |->
                     Cardinality({i \in 1..n : shifted(seq[i]) = letter})]
             observed(letter) ==
                 IF letter \in DOMAIN shifted_counts
                 THEN shifted_counts[letter] ELSE 0
             term(letter) ==
                 LET o == observed(letter)
                     f == ENGLISH_FREQ[letter]
                 IN (o * o * ((ChiScale * FreqScale) \div f)) \div n
                    - 2 * o * ChiScale
                    + (f * n) \div (FreqScale \div ChiScale)
             RECURSIVE score(_)
             score(letter) ==
                 IF letter > OrdA + 25 THEN 0
                 ELSE term(letter) + score(letter + 1)
         IN score(OrdA)

\* min(range(26), key=lambda s: chi_square_score(seq, s)): the first shift
\* of the lowest score
RECURSIVE min_shift(_, _, _, _)
min_shift(seq, s, best, best_score) ==
    IF s > 25 THEN best
    ELSE LET score == chi_square_score(seq, s)
         IN IF score < best_score
            THEN min_shift(seq, s + 1, s, score)
            ELSE min_shift(seq, s + 1, best, best_score)

worst_shift(seq) ==
    CHOOSE s \in 0..25 :
        \A r \in 0..25 : chi_square_score(seq, r) <= chi_square_score(seq, s)

best_shift(seq) == min_shift(seq, 1, 0, chi_square_score(seq, 0))

\* derive_key_for_length, for the key lengths candidate_key_lengths
\* returns (key_len >= 1)
derive_key_for_length(ciphertext, key_len) ==
    LET b == make_buckets(letters_only(ciphertext), key_len)
    IN Return([i \in 1..key_len |-> best_shift(b[i]) + OrdA])

\* the default arguments: kasiski_examination(min_len=3, max_len=5,
\* max_key=16), candidate_key_lengths(max_key_len=16, top_ic=5),
\* bruteforce(max_key_len=16, top=10)
DefaultMinLen == 3
DefaultMaxLen == 5
DefaultMaxKeyLen == 16
DefaultTopIC == 5
DefaultTop == 10

\* [(k, average_ic_for_keylen(ciphertext, k)) for k in range(1, max_key_len + 1)]
RECURSIVE ic_score_list(_, _, _)
ic_score_list(ciphertext, k, max_key_len) ==
    IF k > max_key_len THEN <<>>
    ELSE <<(<<k, average_ic_for_keylen(ciphertext, k)>>)>>
         \o ic_score_list(ciphertext, k + 1, max_key_len)

\* the second elements of a list of pairs
Seconds(s) == [i \in 1..Len(s) |-> s[i][2]]

\* candidate_key_lengths
merge_without_dedup(ciphertext, max_key_len, top_n) ==
    LET ic_scores == ic_score_list(ciphertext, 1, max_key_len)
        ranked == sorted_reverse(ic_scores, Seconds(ic_scores))
        kasiski == kasiski_examination(ciphertext, DefaultMinLen, DefaultMaxLen, max_key_len)
    IN Firsts(Prefix(ranked, top_n))
           \o Firsts(Prefix(kasiski, top_n))

RECURSIVE unique(_, _)
unique(candidates, uniq) ==
    IF candidates = <<>> THEN uniq
    ELSE unique(Tail(candidates),
                IF candidates[1] \notin Range(uniq) /\ candidates[1] >= 1
                THEN Append(uniq, candidates[1]) ELSE uniq)

candidate_key_lengths(ciphertext, max_key_len, top_n) ==
    LET ic_scores == ic_score_list(ciphertext, 1, max_key_len)
        ranked == sorted_reverse(ic_scores, Seconds(ic_scores))
        kasiski == kasiski_examination(ciphertext, DefaultMinLen, DefaultMaxLen, max_key_len)
        candidates == Firsts(Prefix(ranked, top_n))
                          \o Firsts(Prefix(kasiski, top_n))
    IN unique(candidates, <<>>)

\* bruteforce: the first candidate's key is derived, then the lookup of
\* cipher.vigenere_decrypt, which cipher.py does not define, raises
\* AttributeError; without candidates the empty list is sorted and returned
bruteforce(ciphertext, max_key_len, top) ==
    LET candidates == candidate_key_lengths(ciphertext, max_key_len, DefaultTopIC)
    IN IF candidates = <<>> THEN Return(Prefix(<<>>, top))
       ELSE LET k == derive_key_for_length(ciphertext, candidates[1])
            IN IF k.exc # "none" THEN k ELSE Raise("AttributeError")

\* COMMON_WORDS: " the ", " and ", " to ", " of ", " that ", " is ", " in ",
\* " it ", " for ", " you ", " with ", " on ", " have ", " be ", " as ", " at "
COMMON_WORDS ==
    <<<<32, 116, 104, 101, 32>>,
      <<32, 97, 110, 100, 32>>,
      <<32, 116, 111, 32>>,
      <<32, 111, 102, 32>>,
      <<32, 116, 104, 97, 116, 32>>,
      <<32, 105, 115, 32>>,
      <<32, 105, 110, 32>>,
      <<32, 105, 116, 32>>,
      <<32, 102, 111, 114, 32>>,
      <<32, 121, 111, 117, 32>>,
      <<32, 119, 105, 116, 104, 32>>,
      <<32, 111, 110, 32>>,
      <<32, 104, 97, 118, 101, 32>>,
      <<32, 98, 101, 32>>,
      <<32, 97, 115, 32>>,
      <<32, 97, 116, 32>>>>

\* "etaoinshrdlu"
CommonLetters == <<101, 116, 97, 111, 105, 110, 115, 104, 114, 100, 108, 117>>

\* str.count: the occurrences of sub in s found scanning from the left, each
\* search resuming after the end of the occurrence found before
RECURSIVE count_from(_, _, _)
count_from(s, sub, i) ==
    IF i + Len(sub) > Len(s) THEN 0
    ELSE IF SubSeq(s, i + 1, i + Len(sub)) = sub
         THEN 1 + count_from(s, sub, i + Len(sub))
         ELSE count_from(s, sub, i + 1)

str_count(s, sub) == count_from(s, sub, 0)

\* sum of s.count(sub) over a list of substrings
RECURSIVE sum_counts(_, _)
sum_counts(s, subs) ==
    IF subs = <<>> THEN 0
    ELSE str_count(s, subs[1]) + sum_counts(s, Tail(subs))

\* english_score
english_score(txt) ==
    LET lower == <<Space>> \o LowerStr(txt) \o <<Space>>
        words == sum_counts(lower, COMMON_WORDS) * 10
        freq == sum_counts(lower, [i \in 1..Len(CommonLetters) |-> <<CommonLetters[i]>>])
    IN words + freq

(***************************************************************************)
(* The inputs of the analysis, and its state machine: a caller that holds  *)
(* a ciphertext and calls one function of analysis.py on it.               *)
(***************************************************************************)
MaxAnalysisLen == 7     \* longest run of letters in a ciphertext
MaxCosetLen == 5        \* the same, where the text is split into cosets
MaxKeyLen == 4          \* largest key length tried
MaxTopIC == 2           \* largest top_ic tried, besides the default

AnalysisLetters == {65, 98}     \* A b

\* the ciphertexts: runs of letters, and the same with a space after the
\* first letter
TextsUpTo(n) ==
    LET runs == SeqsUpTo(AnalysisLetters, n)
    IN runs \cup {<<r[1], Space>> \o Tail(r) : r \in runs \ {<<>>}}

\* (min_len, max_len) of kasiski_examination: short substrings, and the default
SubstringRanges == {<<1, 2>>, <<2, 3>>, <<DefaultMinLen, DefaultMaxLen>>}

KeyLenLimits == (0..MaxKeyLen) \cup {DefaultMaxKeyLen}
TopICs == (0..MaxTopIC) \cup {DefaultTopIC}
Tops == {1, DefaultTop}

InitTexts(texts) ==
    /\ text \in texts
    /\ key = <<>>
    /\ cur = text
    /\ hist = <<>>
    /\ ret = Return(<<>>)
    /\ args = NoArgs
    /\ buckets = <<>>
    /\ pc = "lib"

InitAnalysis == InitTexts(TextsUpTo(MaxAnalysisLen))

InitCosets == InitTexts(TextsUpTo(MaxCosetLen))

Kasiski ==
    /\ hist = <<>>
    /\ \E r \in SubstringRanges, mk \in KeyLenLimits :
         /\ args' = [min_len |-> r[1], max_len |-> r[2], max_key |-> mk]
         /\ ret' = Return(kasiski_examination(text, r[1], r[2], mk))
    /\ hist' = <<"kasiski_examination">>
    /\ UNCHANGED <<text, key, cur, buckets, pc>>

IndexOfCoincidence ==
    /\ hist = <<>>
    /\ args' = [seq |-> letters_only(text)]
    /\ ret' = Return(index_of_coincidence(letters_only(text)))
    /\ hist' = <<"index_of_coincidence">>
    /\ UNCHANGED <<text, key, cur, buckets, pc>>

AverageIC ==
    /\ hist = <<>>
    /\ \E k \in 0..MaxKeyLen :
         /\ args' = [key_len |-> k]
         /\ buckets' = IF k <= 0 THEN <<>>
                       ELSE make_buckets(letters_only(text), k)
         /\ ret' = Return(average_ic_for_keylen(text, k))
    /\ hist' = <<"average_ic_for_keylen">>
    /\ UNCHANGED <<text, key, cur, pc>>

DeriveKey ==
    /\ hist = <<>>
    /\ \E k \in 1..MaxKeyLen :
         /\ args' = [key_len |-> k]
         /\ buckets' = make_buckets(letters_only(text), k)
         /\ ret' = derive_key_for_length(text, k)
    /\ hist' = <<"derive_key_for_length">>
    /\ UNCHANGED <<text, key, cur, pc>>

CandidateKeyLengths ==
    /\ hist = <<>>
    /\ \E mk \in KeyLenLimits, t \in TopICs :
         /\ args' = [max_key_len |-> mk, top_ic |-> t]
         /\ ret' = Return(candidate_key_lengths(text, mk, t))
    /\ hist' = <<"candidate_key_lengths">>
    /\ UNCHANGED <<text, key, cur, buckets, pc>>

Bruteforce ==
    /\ hist = <<>>
    /\ \E mk \in KeyLenLimits, t \in Tops :
         /\ args' = [max_key_len |-> mk, top |-> t]
         /\ ret' = bruteforce(text, mk, t)
    /\ hist' = <<"bruteforce">>
    /\ UNCHANGED <<text, key, cur, buckets, pc>>

\* one specification for each group of functions
NextKasiski == Kasiski

SpecKasiski == InitAnalysis /\ [][NextKasiski]_vars

NextCosets == IndexOfCoincidence \/ AverageIC \/ DeriveKey

SpecCosets == InitCosets /\ [][NextCosets]_vars

NextCandidates == CandidateKeyLengths

SpecCandidates == InitAnalysis /\ [][NextCandidates]_vars

NextBruteforce == CandidateKeyLengths \/ Bruteforce

SpecBruteforce == InitAnalysis /\ [][NextBruteforce]_vars

\* the texts scored: t, o, T, x and the space, so that " to " occurs
MaxScoreLen == 5        \* longest text scored
ScoreChars == {116, 111, 84, 120, Space}

InitScore == InitTexts(SeqsUpTo(ScoreChars, MaxScoreLen))

EnglishScore ==
    /\ hist = <<>>
    /\ args' = NoArgs
    /\ ret' = Return(english_score(text))
    /\ hist' = <<"english_score">>
    /\ UNCHANGED <<text, key, cur, buckets, pc>>

NextScore == EnglishScore

SpecScore == InitScore /\ [][NextScore]_vars

(***************************************************************************)
(* The command line (cli.py, workflows.py), with stdin a terminal.  pc is  *)
(* the prompt the program waits at; an action is what the program does     *)
(* with one line of input, up to its next prompt.  text, key and cur are   *)
(* the locals of encrypt_flow / decrypt_flow (the text read, the key read, *)
(* the cipher's output), hist the cipher functions the flow has called,    *)
(* args the menu choice being served and the last message shown.  pc is    *)
(* "exited" after choice 5, "interrupted" after sys.exit(0) in ui.prompt,  *)
(* and "crashed" when an exception has left main.                          *)
(***************************************************************************)
\* str.strip, the blanks being spaces
RECURSIVE Strip(_)
Strip(s) ==
    IF s = <<>> THEN s
    ELSE IF s[1] = Space THEN Strip(Tail(s))
    ELSE IF s[Len(s)] = Space THEN Strip(SubSeq(s, 1, Len(s) - 1))
    ELSE s

\* the lines typed at the main menu, and after a result
MenuLines == {"1", "2", "3", "4", "5", "", "9"}
PostLines == {"1", "2", ""}

\* the lines typed at the key prompt: the keys, and one between blanks
KeyLines == Keys \cup {<<Space>> \o KeyQwerty \o <<Space>>}

Prompts ==
    {"menu", "mode", "text", "path", "retry", "key", "post", "fname",
     "continue", "help"}

Show(c, msg) == [choice |-> c, out |-> msg]

\* the locals of a flow, before it starts and after it has returned
NoLocals ==
    /\ text' = <<>>
    /\ key' = <<>>
    /\ cur' = <<>>
    /\ hist' = <<>>
    /\ ret' = Return(<<>>)

InitCLI ==
    /\ pc = "menu"
    /\ text = <<>>
    /\ key = <<>>
    /\ cur = <<>>
    /\ hist = <<>>
    /\ ret = Return(<<>>)
    /\ args = Show("", "menu")
    /\ buckets = <<>>

\* main_loop: one line read at the menu.  workflows has no brute_flow, so
\* choice 3 raises AttributeError, which main does not catch
main_loop ==
    /\ pc = "menu"
    /\ \E c \in MenuLines :
         /\ pc' = CASE c \in {"1", "2"} -> "mode"
                    [] c = "3" -> "crashed"
                    [] c = "4" -> "help"
                    [] c = "5" -> "exited"
                    [] OTHER -> "menu"
         /\ args' = Show(c, CASE c \in {"1", "2"} -> "long_text_hint"
                              [] c = "3" -> "traceback"
                              [] c = "4" -> "help"
                              [] c = "5" -> "goodbye"
                              [] OTHER -> "invalid_choice")
         /\ ret' = IF c = "3" THEN Raise("AttributeError") ELSE Return(<<>>)
    /\ UNCHANGED <<text, key, cur, hist, buckets>>

\* _read_text_input: Enter for direct input, f for a file
read_mode ==
    /\ pc = "mode"
    /\ \E mode \in {"", "f"} :
         /\ pc' = IF mode = "f" THEN "path" ELSE "text"
         /\ args' = Show(args.choice, IF mode = "f" THEN "path" ELSE "text")
    /\ UNCHANGED <<text, key, cur, hist, ret, buckets>>

\* _read_text_input: the text typed at the prompt
read_text ==
    /\ pc = "text"
    /\ text' \in CipherTexts
    /\ pc' = "key"
    /\ args' = Show(args.choice, "key")
    /\ UNCHANGED <<key, cur, hist, ret, buckets>>

\* _read_text_input: the file is read (a file without a saved header, which
\* _strip_saved_header returns as it is), or reading it fails
read_file ==
    /\ pc = "path"
    /\ \/ /\ text' \in CipherTexts
          /\ pc' = "key"
          /\ args' = Show(args.choice, "key")
       \/ /\ pc' = "retry"
          /\ args' = Show(args.choice, "read_error")
          /\ UNCHANGED text
    /\ UNCHANGED <<key, cur, hist, ret, buckets>>

\* _read_text_input: y tries another path, anything else returns ""
read_retry ==
    /\ pc = "retry"
    /\ \/ /\ pc' = "path"
          /\ args' = Show(args.choice, "path")
          /\ UNCHANGED text
       \/ /\ pc' = "key"
          /\ args' = Show(args.choice, "key")
          /\ text' = <<>>
    /\ UNCHANGED <<key, cur, hist, ret, buckets>>

\* _read_key: validate_key raises ValueError, which is caught and shown, and
\* the key is asked for again
read_key_invalid ==
    /\ pc = "key"
    /\ \E line \in KeyLines :
         /\ key' = Strip(line)
         /\ validate_key(key').exc = "ValueError"
         /\ ret' = validate_key(key')
    /\ hist' = <<"validate_key">>
    /\ args' = Show(args.choice, "key_invalid")
    /\ UNCHANGED <<text, cur, buckets, pc>>

\* _read_key returns the key validate_key accepts, and encrypt_flow /
\* decrypt_flow calls the cipher: its output is shown, or its exception
\* leaves the flow and main
read_key_valid ==
    /\ pc = "key"
    /\ \E line \in KeyLines :
         /\ key' = Strip(line)
         /\ validate_key(key').exc = "none"
         /\ \E r \in {IF args.choice = "1" THEN encrypt(text, key')
                                           ELSE decrypt(text, key')} :
              /\ ret' = r
              /\ cur' = IF r.exc = "none" THEN r.val ELSE cur
              /\ pc' = IF r.exc = "none" THEN "post" ELSE "crashed"
              /\ args' = Show(args.choice,
                              IF r.exc = "none" THEN "result" ELSE "traceback")
    /\ hist' = <<"validate_key", IF args.choice = "1" THEN "encrypt" ELSE "decrypt">>
    /\ UNCHANGED <<text, buckets>>

\* post_output_actions: 1 copies (pyperclip may be missing, copying may
\* fail), 2 asks for a file name, anything else returns to the menu
post_output_actions ==
    /\ pc = "post"
    /\ \E cmd \in PostLines :
         \/ /\ cmd = "1"
            /\ pc' = "continue"
            /\ \E msg \in {"copied", "copy_failed", "no_pyperclip"} :
                 args' = Show(args.choice, msg)
            /\ UNCHANGED <<text, key, cur, hist, ret>>
         \/ /\ cmd = "2"
            /\ pc' = "fname"
            /\ args' = Show(args.choice, "fname")
            /\ UNCHANGED <<text, key, cur, hist, ret>>
         \/ /\ cmd = ""
            /\ pc' = "menu"
            /\ args' = Show(args.choice, "menu")
            /\ NoLocals
    /\ UNCHANGED buckets

\* post_output_actions: the result is saved, or saving fails
save_file ==
    /\ pc = "fname"
    /\ pc' = "continue"
    /\ \E msg \in {"saved", "save_failed"} : args' = Show(args.choice, msg)
    /\ UNCHANGED <<text, key, cur, hist, ret, buckets>>

\* post_output_actions: Enter to continue
press_enter ==
    /\ pc = "continue"
    /\ pc' = "menu"
    /\ args' = Show(args.choice, "menu")
    /\ NoLocals
    /\ UNCHANGED buckets

\* show_help: Enter to go back to the menu
show_help ==
    /\ pc = "help"
    /\ pc' = "menu"
    /\ args' = Show(args.choice, "menu")
    /\ UNCHANGED <<text, key, cur, hist, ret, buckets>>

\* ui.prompt: Ctrl+C or end of input at a prompt, and sys.exit(0)
interrupt ==
    /\ pc \in Prompts
    /\ pc' = "interrupted"
    /\ args' = Show(args.choice, "exited")
    /\ UNCHANGED <<text, key, cur, hist, ret, buckets>>

NextCLI ==
    \/ main_loop
    \/ read_mode
    \/ read_text
    \/ read_file
    \/ read_retry
    \/ read_key_invalid
    \/ read_key_valid
    \/ post_output_actions
    \/ save_file
    \/ press_enter
    \/ show_help
    \/ interrupt

\* the user answers every prompt, a file is read or given up in the end, and
\* a valid key is typed in the end
SpecCLI ==
    /\ InitCLI
    /\ [][NextCLI]_vars
    /\ WF_vars(main_loop)
    /\ WF_vars(read_mode)
    /\ WF_vars(read_text)
    /\ SF_vars(read_file /\ pc' = "key")
    /\ WF_vars(read_retry)
    /\ []<>(pc # "key")
    /\ WF_vars(post_output_actions)
    /\ WF_vars(save_file)
    /\ WF_vars(press_enter)
    /\ WF_vars(show_help)

(***************************************************************************)
(* Claims about the cipher.                                                *)
(***************************************************************************)
Last == hist[Len(hist)]

\* the key is a permutation of the 26 letters A-Z, in any case
KeyIsPermutation(k) ==
    /\ Len(k) = 26
    /\ {Upper(k[i]) : i \in 1..Len(k)} = AsciiUpper

\* the letters of the key are exactly 26 letters, distinct when case is ignored
Has26DistinctLetters(k) ==
    LET letters == SelectSeq(k, IsAlpha)
    IN Len(letters) = 26 /\ Cardinality({Upper(c) : c \in Range(letters)}) = 26

\* C1: round trip.  With a valid 26-letter key, encrypt returns for every
\* text, and decrypt of what it returned, under the same key, returns the
\* text.
C1_RoundTrip ==
    (KeyIsPermutation(key) /\ hist # <<>> /\ hist[1] = "encrypt")
        => /\ ret.exc = "none"
           /\ hist = <<"encrypt", "decrypt">> => ret.val = text

\* C3: validate_key, encrypt and decrypt raise ValueError, and produce no
\* text, when the key's letters are not exactly 26 distinct letters; with a
\* permutation of the 26 letters in any case validate_key returns True and
\* encrypt and decrypt return a text.
C3_KeyChecked ==
    Len(hist) = 1 =>
        /\ ~Has26DistinctLetters(key)
             => ret.exc = "ValueError" /\ ret.val = <<>> /\ cur = text
        /\ KeyIsPermutation(key)
             => /\ ret.exc = "none"
                /\ Last = "validate_key" => ret.val = TRUE
                /\ Last # "validate_key" => ret.val \in Seq(Int)

\* C4: with a valid key, encrypt and decrypt return a text of the length of
\* their input, in which every non-alphabetic character is unchanged, every
\* letter is replaced by a letter of the same case, and equal letters
\* (ignoring case) are replaced by equal letters (ignoring case).
C4_TableSubstitution ==
    (KeyIsPermutation(key) /\ Len(hist) = 1 /\ Last \in {"encrypt", "decrypt"})
        => /\ ret.exc = "none"
           /\ Len(ret.val) = Len(text)
           /\ \A i \in 1..Len(text) :
                /\ ~IsAlpha(text[i]) => ret.val[i] = text[i]
                /\ IsUpper(text[i]) => IsUpper(ret.val[i])
                /\ IsLower(text[i]) => IsLower(ret.val[i])
           /\ \A i, j \in 1..Len(text) :
                Upper(text[i]) = Upper(text[j])
                    => Upper(ret.val[i]) = Upper(ret.val[j])

(***************************************************************************)
(* Claims about the analysis.                                              *)
(***************************************************************************)
Called(f) == hist = <<f>>

\* the letters of the normalized text at the indices congruent to p mod k,
\* in their order (indices counted from 0)
CosetAt(t, p, k) ==
    [m \in 1..(IF p >= Len(t) THEN 0 ELSE ((Len(t) - 1 - p) \div k) + 1) |->
        t[p + (m - 1) * k + 1]]

\* C2: on the empty string, with the default arguments, candidate_key_lengths
\* and bruteforce return the empty list and do not raise.
C2_EmptyInputEmptyResult ==
    (/\ text = <<>>
     /\ \/ /\ Called("candidate_key_lengths")
           /\ args = [max_key_len |-> DefaultMaxKeyLen, top_ic |-> DefaultTopIC]
        \/ /\ Called("bruteforce")
           /\ args = [max_key_len |-> DefaultMaxKeyLen, top |-> DefaultTop])
        => ret = Return(<<>>)

\* C5: derive_key_for_length returns, without raising, a key of exactly
\* key_len letters A-Z; its i-th letter encodes (0 as A) a shift in 0..25 no
\* other shift beats: no shift gives coset i a strictly lower chi-square
\* score.  Empty cosets (key_len above the number of letters) included.
C5_KeyOfBestShifts ==
    Called("derive_key_for_length") =>
        /\ ret.exc = "none"
        /\ Len(ret.val) = args.key_len
        /\ \A i \in 1..args.key_len :
             LET coset == CosetAt(letters_only(text), i - 1, args.key_len)
                 shift == ret.val[i] - OrdA
             IN /\ shift \in 0..25
                /\ \A s \in 0..25 :
                     ~(chi_square_score(coset, s) < chi_square_score(coset, shift))

\* C5's case: more cosets than letters, the first coset's shift not 0, the
\* last coset empty with key letter A
C5_Witness ==
    /\ Called("derive_key_for_length")
    /\ letters_only(text) # <<>>
    /\ args.key_len > Len(letters_only(text))
    /\ ret.val[1] # OrdA
    /\ ret.val[args.key_len] = OrdA

\* C6: candidate_key_lengths returns the top_ic key lengths of highest average
\* IC, in rank order (equal averages: the smaller length first), followed by
\* those of the top_ic Kasiski factors not among them, in Kasiski order:
\* no duplicates, every element in 1..max_key_len, at most 2 * top_ic
\* elements.
C6_MergedCandidates ==
    Called("candidate_key_lengths") =>
        LET out == ret.val
            mk == args.max_key_len
            m == IF args.top_ic < mk THEN args.top_ic ELSE mk
            kas == Firsts(Prefix(
                     kasiski_examination(text, DefaultMinLen, DefaultMaxLen, mk),
                     args.top_ic))
            avg == [k \in 1..mk |-> average_ic_for_keylen(text, k)]
            Before(a, b) ==
                RatLess(avg[b], avg[a]) \/ (avg[a] = avg[b] /\ a < b)
            byIC == {out[i] : i \in 1..m}
            At(x) == CHOOSE i \in 1..Len(kas) : kas[i] = x
        IN /\ ret.exc = "none"
           /\ Cardinality(Range(out)) = Len(out)
           /\ Range(out) \subseteq 1..mk
           /\ Len(out) <= 2 * args.top_ic
           /\ Len(out) >= m
           /\ \A i \in 1..(m - 1) : Before(out[i], out[i + 1])
           /\ \A k \in (1..mk) \ byIC : \A a \in byIC : Before(a, k)
           /\ Range(out) = byIC \cup Range(kas)
           /\ \A i, j \in (m + 1)..Len(out) : i < j => At(out[i]) < At(out[j])

\* C6's case: among the top_ic Kasiski factors one is also an IC-ranked
\* length (dropped as a duplicate) and another is not (appended after them)
C6_Witness ==
    /\ Called("candidate_key_lengths")
    /\ args.top_ic >= 2
    /\ args.top_ic < args.max_key_len
    /\ LET kas == Firsts(Prefix(
                 kasiski_examination(text, DefaultMinLen, DefaultMaxLen,
                                     args.max_key_len),
                 args.top_ic))
           byIC == {ret.val[i] : i \in 1..args.top_ic}
       IN /\ Len(ret.val) > args.top_ic
          /\ Range(kas) \cap byIC # {}
          /\ Range(kas) \ byIC # {}
          /\ ret.val[Len(ret.val)] \in Range(kas) \ byIC

\* C7: bruteforce returns at most `top` triples (score, key, plaintext), in
\* non-increasing score order, each with the key derived for one candidate
\* key length.
C7_RankedResults ==
    Called("bruteforce") =>
        /\ ret.exc = "none"
        /\ Len(ret.val) <= args.top
        /\ \A i \in 1..Len(ret.val) :
             \E k \in Range(candidate_key_lengths(text, args.max_key_len,
                                                  DefaultTopIC)) :
                ret.val[i][2] = derive_key_for_length(text, k).val
        /\ \A i \in 1..(Len(ret.val) - 1) : ret.val[i][1] >= ret.val[i + 1][1]

\* C8: for a nonempty sequence index_of_coincidence is in [0, 1], and for a
\* sequence of one letter repeated (twice or more) it is 1.
C8_ICRange ==
    (Called("index_of_coincidence") /\ args.seq # <<>>) =>
        /\ ret.val.den > 0
        /\ 0 <= ret.val.num
        /\ ret.val.num <= ret.val.den
        /\ (Cardinality(Range(args.seq)) = 1 /\ Len(args.seq) >= 2)
              => ret.val = [num |-> 1, den |-> 1]

\* C8's case: one letter repeated three times or more
C8_Witness ==
    /\ Called("index_of_coincidence")
    /\ Len(args.seq) >= 3
    /\ Cardinality(Range(args.seq)) = 1
    /\ ret.val = [num |-> 1, den |-> 1]

\* C9: for a key length k >= 1 the k cosets partition the normalized
\* sequence: coset p holds the letters at the indices congruent to p mod k
\* in their order, and letter (j div k) of coset (j mod k), j = 0..n-1, is
\* letter j of the normalized sequence.
C9_CosetsPartition ==
    ((Called("average_ic_for_keylen") \/ Called("derive_key_for_length"))
      /\ args.key_len >= 1) =>
        LET t == letters_only(text)
            k == args.key_len
        IN /\ Len(buckets) = k
           /\ \A p \in 0..(k - 1) : buckets[p + 1] = CosetAt(t, p, k)
           /\ \A j \in 0..(Len(t) - 1) :
                /\ (j \div k) + 1 \in 1..Len(buckets[(j % k) + 1])
                /\ buckets[(j % k) + 1][(j \div k) + 1] = t[j + 1]

\* C9's case: a text with a non-letter, split into two or more cosets of
\* two or more letters that are not all equal
C9_Witness ==
    /\ Called("derive_key_for_length")
    /\ Len(letters_only(text)) < Len(text)
    /\ args.key_len >= 2
    /\ \A p \in 1..args.key_len : Len(buckets[p]) >= 2
    /\ buckets[1] # buckets[2]

\* the distances (size, i, j) from an occurrence at i of a substring of
\* size letters of the normalized text to its next occurrence at j
Distances ==
    LET t == letters_only(text)
        starts(size) == 0..(Len(t) - size)
    IN {<<size, i, j>> \in (args.min_len..args.max_len) \X (0..Len(t)) \X (0..Len(t)) :
          /\ i \in starts(size) /\ j \in starts(size) /\ i < j
          /\ Slice(t, i, size) = Slice(t, j, size)
          /\ \A m \in (i + 1)..(j - 1) : Slice(t, m, size) # Slice(t, i, size)}

Votes(f) == Cardinality({d \in Distances : (d[3] - d[2]) % f = 0})

WordOccurrences ==
    LET lower == <<Space>> \o LowerStr(text) \o <<Space>>
    IN {<<w, i>> \in (1..Len(COMMON_WORDS)) \X (1..Len(lower)) :
          /\ i + Len(COMMON_WORDS[w]) - 1 <= Len(lower)
          /\ SubSeq(lower, i, i + Len(COMMON_WORDS[w]) - 1) = COMMON_WORDS[w]}

\* the characters of the text that are one of e,t,a,o,i,n,s,h,r,d,l,u in
\* either case
FrequentLetters ==
    {i \in 1..Len(text) : Lower(text[i]) \in Range(CommonLetters)}

\* C11: english_score(text) is 10 times the number of occurrences of the
\* common words (each with its two spaces) in the lower-cased text padded with
\* a space on each side, plus the number of characters of the text that are
\* one of e,t,a,o,i,n,s,h,r,d,l,u in either case; it is a non-negative
\* integer, and 0 for the empty text.
C11_EnglishScore ==
    Called("english_score") =>
        /\ ret.exc = "none"
        /\ ret.val \in Nat
        /\ ret.val = 10 * Cardinality(WordOccurrences)
                        + Cardinality(FrequentLetters)
        /\ text = <<>> => ret.val = 0

\* the command line is inside a choice's flow
InFlow == pc \in Prompts \ {"menu"}

\* C12: in the main loop every choice other than 5 returns to the main menu
\* in the end (or the user interrupts the input) and no exception leaves
\* main, the user typing a valid key in the end; the loop ends only on choice
\* 5 or on an interrupt; and encrypt_flow / decrypt_flow call the cipher only
\* with a key that validate_key has accepted.
C12_MainLoop ==
    /\ [](pc # "lib" =>
            /\ pc # "crashed"
            /\ pc \in Prompts \cup {"exited", "interrupted"}
            /\ pc = "exited" => args.choice = "5"
            /\ ("encrypt" \in Range(hist) \/ "decrypt" \in Range(hist))
                  => Has26DistinctLetters(key))
    /\ (InFlow ~> (pc \in {"menu", "interrupted"}))

====
